---- MODULE Spec2Model ----
(***************************************************************************)
(* Model of the grocery ordering prototype (src/app.py): the Store class   *)
(* (catalog, order ledger, create_order) and the HTTP handlers that change *)
(* state (cart, checkout, inventory, order status).                        *)
(*                                                                         *)
(* Money is counted in mills (1/1000 of a currency unit), so that a price  *)
(* may have sub-cent digits and round(total, 2) is a real rounding: 0.69   *)
(* is 690, and a rounded total is a multiple of 10.                        *)
(* Names are tuples of characters, each a string.                          *)
(***************************************************************************)
EXTENDS Integers, Sequences, FiniteSets, TLC

VARIABLES
    stores,     \* the global dict `stores`: store id -> Store
    store_id,   \* session["store_id"]; None when no store was selected
    carts,      \* session["cart_store_<id>"]: the stored (JSON) cart per store
    result,     \* what the last call answered: a raised error or the flashed message
    threaded,   \* whether the server runs requests on concurrent threads
    procs       \* the order placements in flight (one per request thread)

vars == <<stores, store_id, carts, result, threaded, procs>>

None == 0

------------------------------------------------------------------------------
(* Bounds of the model *)

MaxStock == 2      \* the largest stock a product has
MaxLines == 2      \* the longest list of lines passed to create_order
MaxPlaced == 1     \* orders placed by direct create_order calls
MaxOrders == 2     \* orders in a store's ledger

Prices == {5, 694}
Methods == {"delivery", "pickup"}
Allowed == {"pending", "accepted", "ready", "completed"}

------------------------------------------------------------------------------
(* Models: Product, OrderItem, Order, Store *)

Product(id, name, price, quantity) ==
    [id |-> id, name |-> name, price |-> price, quantity |-> quantity]

OrderItem(product_id, quantity) ==
    [product_id |-> product_id, quantity |-> quantity]

Order(id, items, total_price, delivery_method, status) ==
    [id |-> id, items |-> items, total_price |-> total_price,
     delivery_method |-> delivery_method, status |-> status]

Store(id, name) ==
    [id |-> id, name |-> name, products |-> <<>>, orders |-> <<>>]

SetMax(S) == CHOOSE m \in S : \A x \in S : x <= m

\* max(self.products.keys()) + 1, or 1 when there is no product
next_product_id(store) ==
    IF DOMAIN store.products = {} THEN 1 ELSE SetMax(DOMAIN store.products) + 1

\* Mutant of next_order_id: the number of orders in the ledger.
next_order_id_len(store) == Len(store.orders)

\* max([o.id for o in self.orders]) + 1, or 1 when there is no order
next_order_id(store) ==
    IF store.orders = <<>> THEN 1
    ELSE SetMax({store.orders[i].id : i \in 1..Len(store.orders)}) + 1

\* self.products[pid] = Product(...): a dict assignment
DictSet(d, k, v) == [x \in DOMAIN d \cup {k} |-> IF x = k THEN v ELSE d[x]]

\* self.products.pop(pid, None)
DictPop(d, k) == [x \in DOMAIN d \ {k} |-> d[x]]

Store_add_product(store, name, price, quantity) ==
    LET pid == next_product_id(store)
    IN [store EXCEPT !.products = DictSet(@, pid, Product(pid, name, price, quantity))]

\* Mutant of Store.update_product: a product that is not there is inserted.
Store_update_product_upsert(store, product_id, name, price, quantity) ==
    [store EXCEPT !.products =
        DictSet(@, product_id, Product(product_id, name, price, quantity))]

Store_update_product(store, product_id, name, price, quantity) ==
    IF product_id \in DOMAIN store.products
    THEN [store EXCEPT !.products[product_id].name = name,
                       !.products[product_id].price = price,
                       !.products[product_id].quantity = quantity]
    ELSE store

Store_delete_product(store, product_id) ==
    [store EXCEPT !.products = DictPop(@, product_id)]

\* Mutant of check_item: the quantity is not compared with the stock.
check_item_nostock(products, item) ==
    IF item.product_id \notin DOMAIN products THEN "Product not found."
    ELSE IF item.quantity <= 0 THEN "Invalid quantity."
    ELSE ""

\* One line of the validation loop: the error it raises, "" when it passes.
\* ("Not enough stock." stands for f"Not enough stock for {product.name}.")
check_item(products, item) ==
    IF item.product_id \notin DOMAIN products THEN "Product not found."
    ELSE IF item.quantity <= 0 THEN "Invalid quantity."
    ELSE IF item.quantity > products[item.product_id].quantity
         THEN "Not enough stock."
    ELSE ""

\* Mutant of validate: each line's amount is rounded to cents as it is added.
RECURSIVE validate_roundlines(_, _, _, _)
validate_roundlines(products, items, i, total) ==
    IF i > Len(items) THEN [raised |-> "", at |-> 0, total |-> total]
    ELSE LET e == check_item(products, items[i])
             amount == products[items[i].product_id].price * items[i].quantity
         IN IF e # "" THEN [raised |-> e, at |-> i, total |-> total]
            ELSE validate_roundlines(products, items, i + 1,
                                     total + (amount \div 10) * 10)

\* The first loop of create_order from line i on, total being the sum so far:
\* the error of the first failing line and its position, or the sum of
\* price * quantity.
RECURSIVE validate(_, _, _, _)
validate(products, items, i, total) ==
    IF i > Len(items) THEN [raised |-> "", at |-> 0, total |-> total]
    ELSE LET e == check_item(products, items[i])
         IN IF e # "" THEN [raised |-> e, at |-> i, total |-> total]
            ELSE validate(products, items, i + 1,
                          total + products[items[i].product_id].price * items[i].quantity)

\* Mutant of decrement: a product named by an earlier line is not
\* decremented again.
RECURSIVE decrement_skipdup(_, _, _)
decrement_skipdup(products, items, i) ==
    IF i > Len(items) THEN products
    ELSE IF \E j \in 1..(i - 1) : items[j].product_id = items[i].product_id
    THEN decrement_skipdup(products, items, i + 1)
    ELSE decrement_skipdup([products EXCEPT ![items[i].product_id].quantity =
                                                @ - items[i].quantity],
                           items, i + 1)

\* The second loop of create_order from line i on.
RECURSIVE decrement(_, _, _)
decrement(products, items, i) ==
    IF i > Len(items) THEN products
    ELSE decrement([products EXCEPT ![items[i].product_id].quantity =
                                        @ - items[i].quantity],
                   items, i + 1)

\* round(total, 2) of a non-negative amount: the nearest multiple of 10 mills.
\* An amount halfway between two cents goes to either: which one depends on
\* the binary float nearest to it (round(0.005, 2) is 0.01, round(0.015, 2)
\* is 0.01).
round2(total) ==
    LET lo == (total \div 10) * 10
        r == total % 10
    IN IF r < 5 THEN {lo} ELSE IF r > 5 THEN {lo + 10} ELSE {lo, lo + 10}

\* Mutant of create_order: one pass that decrements each line as it is
\* validated, so a failing line leaves the earlier lines decremented.
create_order_onepass(store, items, delivery_method) ==
    LET v == validate(store.products, items, 1, 0)
    IN IF v.raised # ""
       THEN {[raised |-> v.raised, at |-> v.at,
              store |-> [store EXCEPT !.products =
                  decrement(store.products, SubSeq(items, 1, v.at - 1), 1)]]}
       ELSE {[raised |-> "", at |-> 0,
              store |-> [store EXCEPT
                  !.products = decrement(store.products, items, 1),
                  !.orders = Append(@, Order(next_order_id(store), items, t,
                                             delivery_method, "pending"))]]
             : t \in round2(v.total)}

\* The results of self.create_order(items, delivery_method): the error raised
\* (the store is as before), or the store after the order and the order.
create_order(store, items, delivery_method) ==
    LET v == validate(store.products, items, 1, 0)
    IN IF v.raised # ""
       THEN {[raised |-> v.raised, at |-> v.at, store |-> store]}
       ELSE {[raised |-> "", at |-> 0,
              store |-> [store EXCEPT
                  !.products = decrement(store.products, items, 1),
                  !.orders = Append(@, Order(next_order_id(store), items, t,
                                             delivery_method, "pending"))]]
             : t \in round2(v.total)}

\* next((o for o in self.orders if o.id == order_id), None): the first order
\* of that id as a one-element tuple, <<>> for None.
get_order(store, order_id) ==
    LET at == {i \in 1..Len(store.orders) : store.orders[i].id = order_id}
    IN IF at = {} THEN <<>>
       ELSE <<store.orders[CHOOSE i \in at : \A j \in at : i <= j]>>

Result(op, msg, arg) == [op |-> op, msg |-> msg, arg |-> arg]

------------------------------------------------------------------------------
(* SpecOrder: calls of Store.create_order and Store.update_product on one   *)
(* store.                                                                  *)

Idle == [p \in {} |-> 0]

\* A store with products 1 and 2, as two add_product calls leave it.
OrderStore ==
    Store_add_product(
        Store_add_product(Store(1, <<"s">>), <<"a">>, 694, MaxStock),
        <<"b">>, 5, 1)

InitOrder ==
    /\ stores = [s \in {1} |-> OrderStore]
    /\ store_id = None
    /\ carts = [s \in {1} |-> <<>>]
    /\ result = Result("init", "", <<>>)
    /\ threaded = FALSE
    /\ procs = Idle

RECURSIVE SeqsUpTo(_, _)
SeqsUpTo(S, n) ==
    IF n = 0 THEN {<<>>}
    ELSE LET shorter == SeqsUpTo(S, n - 1)
         IN shorter \cup {Append(s, x) : s \in {t \in shorter : Len(t) = n - 1}, x \in S}

\* The lines a call may pass: product 1 in any quantity (0 is invalid),
\* product 2 within and beyond its stock, and a product not in the catalog.
OrderLines ==
    {OrderItem(1, q) : q \in 0..MaxStock}
        \cup {OrderItem(2, 1), OrderItem(2, 2), OrderItem(3, 1)}

OrderItemSeqs == SeqsUpTo(OrderLines, MaxLines)

\* A call of Store.create_order. The answer records the arguments of a call
\* that returned, and the position of the line that made a call raise.
CallCreateOrder(sid, items, delivery_method) ==
    /\ Len(stores[sid].orders) < MaxPlaced
    /\ \E out \in create_order(stores[sid], items, delivery_method) :
          /\ stores' = [stores EXCEPT ![sid] = out.store]
          /\ result' = Result("create_order", out.raised,
                              IF out.raised = "" THEN <<items, delivery_method>>
                              ELSE <<out.at>>)
    /\ UNCHANGED <<store_id, carts, threaded, procs>>

CallAddProduct(sid, name, price, quantity) ==
    /\ stores' = [stores EXCEPT ![sid] = Store_add_product(@, name, price, quantity)]
    /\ result' = Result("add_product", "", <<>>)
    /\ UNCHANGED <<store_id, carts, threaded, procs>>

CallDeleteProduct(sid, product_id) ==
    /\ stores' = [stores EXCEPT ![sid] = Store_delete_product(@, product_id)]
    /\ result' = Result("delete_product", "", <<product_id>>)
    /\ UNCHANGED <<store_id, carts, threaded, procs>>

CallUpdateProduct(sid, product_id, name, price, quantity) ==
    /\ stores' = [stores EXCEPT
                    ![sid] = Store_update_product(@, product_id, name, price, quantity)]
    /\ result' = Result("update_product", "", <<product_id>>)
    /\ UNCHANGED <<store_id, carts, threaded, procs>>

\* The owner reprices product 1 (its name and quantity are resubmitted as
\* they are).
NextOrder ==
    \/ \E items \in OrderItemSeqs, m \in Methods :
          CallCreateOrder(1, items, m)
    \/ \E price \in Prices :
          CallUpdateProduct(1, 1, stores[1].products[1].name, price,
                            stores[1].products[1].quantity)

SpecOrder == InitOrder /\ [][NextOrder]_vars

------------------------------------------------------------------------------
(* Claims about Store.create_order, under SpecOrder *)

Last(seq) == seq[Len(seq)]

\* The last call was a create_order that returned / that raised.
Placed(r) == r.op = "create_order" /\ r.msg = ""
Refused(r) == r.op = "create_order" /\ r.msg # ""

\* C1: every product's quantity is >= 0 in every reachable state, whatever
\* lines the create_order calls pass (several lines may name one product).
C1_StockNeverNegative ==
    \A sid \in DOMAIN stores : \A pid \in DOMAIN stores[sid].products :
        stores[sid].products[pid].quantity >= 0

\* C2: a create_order call that raises leaves the catalog and the ledger as
\* they were, whichever line made it raise.
C2_RefusedOrderChangesNothing ==
    [][Refused(result') => stores' = stores]_vars

\* A call raised on its second line, after its first line passed.
C2_Witness ==
    /\ Refused(result)
    /\ result.arg = <<2>>
    /\ result.msg = "Not enough stock."

\* The sum of price * quantity over the lines, at the prices of `products`.
RECURSIVE LinesSum(_, _)
LinesSum(products, items) ==
    IF items = <<>> THEN 0
    ELSE LinesSum(products, SubSeq(items, 1, Len(items) - 1))
         + products[Last(items).product_id].price * Last(items).quantity

Abs(x) == IF x < 0 THEN -x ELSE x

\* C4: the total of a placed order is a whole number of cents, and it is a
\* nearest one to the exact sum of price * quantity over the lines of the
\* call, at the prices the products had when the call was made.
C4_TotalIsSumRoundedOnce ==
    [][Placed(result') =>
        LET exact == LinesSum(stores[1].products, result'.arg[1])
            total == Last(stores'[1].orders).total_price
        IN total % 10 = 0 /\ Abs(total - exact) <= 5]_vars

\* An order of two lines whose exact sum is 8 mills above a cent, each line
\* being 4 mills above: rounding each line would lose them.
C4_Witness ==
    /\ Placed(result)
    /\ Len(result.arg[1]) = 2
    /\ LinesSum(stores[1].products, result.arg[1]) % 10 = 8
    /\ Last(stores[1].orders).total_price
          = LinesSum(stores[1].products, result.arg[1]) + 2

\* The quantity the lines order of product pid.
RECURSIVE Ordered(_, _)
Ordered(items, pid) ==
    IF items = <<>> THEN 0
    ELSE Ordered(Tail(items), pid)
         + (IF Head(items).product_id = pid THEN Head(items).quantity ELSE 0)

\* What a placed order leaves alone, and the order it appends.
OrderAppended(before, after, items, delivery_method) ==
    /\ DOMAIN after.products = DOMAIN before.products
    /\ \A pid \in DOMAIN before.products :
          /\ after.products[pid].name = before.products[pid].name
          /\ after.products[pid].price = before.products[pid].price
          /\ Ordered(items, pid) = 0 =>
                after.products[pid].quantity = before.products[pid].quantity
    /\ Len(after.orders) = Len(before.orders) + 1
    /\ SubSeq(after.orders, 1, Len(before.orders)) = before.orders
    /\ Last(after.orders).items = items
    /\ Last(after.orders).delivery_method = delivery_method
    /\ Last(after.orders).status = "pending"

\* C5 as stated: a placed order takes from each ordered product exactly the
\* quantity of its line, leaves the other products alone and appends one
\* pending order with the lines and the method of the call.
C5_AsStated ==
    [][Placed(result') =>
        LET items == result'.arg[1] IN
        /\ OrderAppended(stores[1], stores'[1], items, result'.arg[2])
        /\ \A i \in 1..Len(items) :
              stores'[1].products[items[i].product_id].quantity
                = stores[1].products[items[i].product_id].quantity
                  - items[i].quantity]_vars

\* C5, amended: a placed order takes from each product the sum of the
\* quantities of the lines that name it (its line's quantity when one line
\* names it), leaves the other products alone and appends one pending order
\* with the lines and the method of the call.
C5_DecrementsByLines ==
    [][Placed(result') =>
        LET items == result'.arg[1] IN
        /\ OrderAppended(stores[1], stores'[1], items, result'.arg[2])
        /\ \A pid \in DOMAIN stores[1].products :
              stores'[1].products[pid].quantity
                = stores[1].products[pid].quantity - Ordered(items, pid)]_vars

\* An order of two lines, one naming product 1 and one product 2, placed for delivery.
C5_Witness ==
    /\ Placed(result)
    /\ result.arg[2] = "delivery"
    /\ Len(result.arg[1]) = 2
    /\ result.arg[1][1].product_id # result.arg[1][2].product_id
    /\ Last(stores[1].orders).items = result.arg[1]

------------------------------------------------------------------------------
(* Session, cart and form helpers of the HTTP handlers *)

\* The stores the customers of SpecApp select, of the three of seed().
StoreIds == {1, 2}

\* str(k) of a non-negative int: its decimal digits.
RECURSIVE str(_)
str(k) == IF k < 10 THEN <<k>> ELSE Append(str(k \div 10), k % 10)

\* int(s) of a string of decimal digits.
RECURSIVE int(_)
int(s) == IF Len(s) = 1 THEN s[1]
          ELSE 10 * int(SubSeq(s, 1, Len(s) - 1)) + s[Len(s)]

\* A dict that keeps insertion order is a sequence of <<key, value>> pairs
\* with distinct keys.
Keys(d) == {d[i][1] : i \in 1..Len(d)}

\* d.get(k, default)
DictGet(d, k, default) ==
    IF k \in Keys(d) THEN d[CHOOSE i \in 1..Len(d) : d[i][1] = k][2] ELSE default

\* d[k] = v: the value of a present key is replaced in place, a new key is
\* appended.
DictPut(d, k, v) ==
    IF k \in Keys(d)
    THEN [i \in 1..Len(d) |-> IF d[i][1] = k THEN <<k, v>> ELSE d[i]]
    ELSE Append(d, <<k, v>>)

cart_key(sid) == <<"cart_store_", str(sid)>>

\* {int(k): int(v) for k, v in raw.items()}
RECURSIVE IntKeys(_, _)
IntKeys(raw, d) ==
    IF raw = <<>> THEN d
    ELSE IntKeys(Tail(raw), DictPut(d, int(Head(raw)[1]), Head(raw)[2]))

\* {str(k): int(v) for k, v in cart.items()}
RECURSIVE StrKeys(_, _)
StrKeys(cart, d) ==
    IF cart = <<>> THEN d
    ELSE StrKeys(Tail(cart), DictPut(d, str(Head(cart)[1]), Head(cart)[2]))

get_cart(sid) == IntKeys(carts[cart_key(sid)], <<>>)

save_cart(sid, cart) == [carts EXCEPT ![cart_key(sid)] = StrKeys(cart, <<>>)]

get_selected_store_id == store_id

\* The key in `stores` of the selected store, None when the handler redirects.
get_store_or_redirect ==
    LET sid == get_selected_store_id
    IN IF sid = None \/ sid \notin DOMAIN stores THEN None ELSE sid

\* A form field: missing or empty, text that is no number, or a number.
Missing == [kind |-> "missing", val |-> 0]
Text == [kind |-> "text", val |-> 0]
Num(n) == [kind |-> "num", val |-> n]

\* int(request.form.get(field, default) or default), and float(...) alike:
\* the number, or a ValueError.
FormNumber(field, default) ==
    IF field.kind = "missing" THEN [ok |-> TRUE, val |-> default]
    ELSE IF field.kind = "text" THEN [ok |-> FALSE, val |-> 0]
    ELSE [ok |-> TRUE, val |-> field.val]

\* The characters str.strip() removes, those str.isspace() is true of: the
\* space, tab, newline, carriage return and form feed, and the ones a string
\* of the model cannot hold, which are written as their Python escapes
\* ("\\x0b" is the vertical tab '\x0b', "\\u3000" the ideographic space).
Whitespace ==
    {" ", "\t", "\n", "\r", "\f", "\\x0b", "\\x1c", "\\x1d", "\\x1e",
     "\\x1f", "\\x85", "\\xa0", "\\u1680", "\\u2000", "\\u2001", "\\u2002",
     "\\u2003", "\\u2004", "\\u2005", "\\u2006", "\\u2007", "\\u2008",
     "\\u2009", "\\u200a", "\\u2028", "\\u2029", "\\u202f", "\\u205f",
     "\\u3000"}

\* name.strip(), of a tuple of characters: every leading and trailing
\* whitespace character is removed.
RECURSIVE strip(_)
strip(name) ==
    IF name = <<>> THEN name
    ELSE IF Head(name) \in Whitespace THEN strip(Tail(name))
    ELSE IF name[Len(name)] \in Whitespace
         THEN strip(SubSeq(name, 1, Len(name) - 1))
    ELSE name

max(a, b) == IF b > a THEN b ELSE a

\* What a handler answers: the message it flashes (a message that formats a
\* name, an id or a quantity in is written without them), or that it
\* redirects to the store picker without a flash.
NoStore(op) == Result(op, "redirect choose_store", <<>>)
Flash(op, msg) == Result(op, msg, <<>>)

------------------------------------------------------------------------------
(* The HTTP handlers that change state *)

select_store(sid) ==
    /\ IF sid \notin DOMAIN stores
       THEN /\ result' = Flash("select_store", "Store not found.")
            /\ UNCHANGED store_id
       ELSE /\ store_id' = sid
            /\ result' = Flash("select_store", "Selected store")
    /\ UNCHANGED <<stores, carts, threaded, procs>>

\* Mutant of add_to_cart: the quantity is not checked to be at least 1.
add_to_cart_anyqty(product_id, quantity) ==
    LET sid == get_store_or_redirect
        qty == FormNumber(quantity, 1)
    IN
    /\ IF sid = None THEN result' = NoStore("add_to_cart") /\ UNCHANGED carts
       ELSE IF ~qty.ok THEN result' = Flash("add_to_cart", "ValueError") /\ UNCHANGED carts
       ELSE IF product_id \notin DOMAIN stores[sid].products
       THEN result' = Flash("add_to_cart", "Product not found.") /\ UNCHANGED carts
       ELSE IF qty.val > stores[sid].products[product_id].quantity
       THEN result' = Flash("add_to_cart", "Not enough stock.") /\ UNCHANGED carts
       ELSE LET cart == get_cart(sid)
                added == DictPut(cart, product_id, DictGet(cart, product_id, 0) + qty.val)
                stock == stores[sid].products[product_id].quantity
                capped == IF DictGet(added, product_id, 0) > stock
                          THEN DictPut(added, product_id, stock) ELSE added
            IN /\ carts' = save_cart(sid, capped)
               /\ result' = Flash("add_to_cart", "Added to cart.")
    /\ UNCHANGED <<stores, store_id, threaded, procs>>

\* An unparsable quantity is a ValueError nothing catches: the request fails
\* and changes nothing.
add_to_cart(product_id, quantity) ==
    LET sid == get_store_or_redirect
        qty == FormNumber(quantity, 1)
    IN
    /\ IF sid = None THEN result' = NoStore("add_to_cart") /\ UNCHANGED carts
       ELSE IF ~qty.ok THEN result' = Flash("add_to_cart", "ValueError") /\ UNCHANGED carts
       ELSE IF qty.val <= 0
       THEN result' = Flash("add_to_cart", "Quantity must be at least 1.") /\ UNCHANGED carts
       ELSE IF product_id \notin DOMAIN stores[sid].products
       THEN result' = Flash("add_to_cart", "Product not found.") /\ UNCHANGED carts
       ELSE IF qty.val > stores[sid].products[product_id].quantity
       THEN result' = Flash("add_to_cart", "Not enough stock.") /\ UNCHANGED carts
       ELSE LET cart == get_cart(sid)
                added == DictPut(cart, product_id, DictGet(cart, product_id, 0) + qty.val)
                stock == stores[sid].products[product_id].quantity
                capped == IF DictGet(added, product_id, 0) > stock
                          THEN DictPut(added, product_id, stock) ELSE added
            IN /\ carts' = save_cart(sid, capped)
               /\ result' = Flash("add_to_cart", "Added to cart.")
    /\ UNCHANGED <<stores, store_id, threaded, procs>>

clear_cart ==
    LET sid == get_store_or_redirect IN
    /\ IF sid = None THEN result' = NoStore("clear_cart") /\ UNCHANGED carts
       ELSE /\ carts' = save_cart(sid, <<>>)
            /\ result' = Flash("clear_cart", "Cart cleared.")
    /\ UNCHANGED <<stores, store_id, threaded, procs>>

\* [OrderItem(pid, qty) for pid, qty in cart.items() if qty > 0]
RECURSIVE cart_items(_)
cart_items(cart) ==
    IF cart = <<>> THEN <<>>
    ELSE IF Head(cart)[2] > 0
         THEN <<OrderItem(Head(cart)[1], Head(cart)[2])>> \o cart_items(Tail(cart))
         ELSE cart_items(Tail(cart))

\* Mutant of checkout: the cart is emptied before the order is placed.
checkout_clearfirst(delivery_method) ==
    LET sid == get_store_or_redirect
        method == IF delivery_method \notin Methods THEN "pickup" ELSE delivery_method
    IN
    /\ IF sid = None
       THEN result' = NoStore("checkout") /\ UNCHANGED <<stores, carts>>
       ELSE LET cart == get_cart(sid) IN
            IF cart = <<>>
            THEN result' = Flash("checkout", "Your cart is empty.")
                 /\ UNCHANGED <<stores, carts>>
            ELSE \E out \in create_order(stores[sid], cart_items(cart), method) :
                    /\ stores' = [stores EXCEPT ![sid] = out.store]
                    /\ carts' = save_cart(sid, <<>>)
                    /\ result' = Flash("checkout", IF out.raised # "" THEN out.raised
                                                   ELSE "Order placed!")
    /\ UNCHANGED <<store_id, threaded, procs>>

checkout(delivery_method) ==
    LET sid == get_store_or_redirect
        method == IF delivery_method \notin Methods THEN "pickup" ELSE delivery_method
    IN
    /\ IF sid = None
       THEN result' = NoStore("checkout") /\ UNCHANGED <<stores, carts>>
       ELSE LET cart == get_cart(sid) IN
            IF cart = <<>>
            THEN result' = Flash("checkout", "Your cart is empty.")
                 /\ UNCHANGED <<stores, carts>>
            ELSE \E out \in create_order(stores[sid], cart_items(cart), method) :
                    /\ stores' = [stores EXCEPT ![sid] = out.store]
                    /\ IF out.raised # ""
                       THEN result' = Flash("checkout", out.raised) /\ UNCHANGED carts
                       ELSE /\ carts' = save_cart(sid, <<>>)
                            /\ result' = Flash("checkout", "Order placed!")
    /\ UNCHANGED <<store_id, threaded, procs>>

\* The form of add_product and update_product: the flash of a form that is
\* turned down, "" for one that is accepted.
inventory_form(name, price, quantity) ==
    IF ~FormNumber(price, 0).ok \/ ~FormNumber(quantity, 0).ok
    THEN "Invalid price or quantity."
    ELSE IF strip(name) = <<>> THEN "Product name is required."
    ELSE ""

add_product(name, price, quantity) ==
    LET sid == get_store_or_redirect
        refused == inventory_form(name, price, quantity)
    IN
    /\ IF sid = None THEN result' = NoStore("add_product") /\ UNCHANGED stores
       ELSE IF refused # "" THEN result' = Flash("add_product", refused) /\ UNCHANGED stores
       ELSE /\ stores' = [stores EXCEPT ![sid] =
                   Store_add_product(@, strip(name), max(FormNumber(price, 0).val, 0),
                                     max(FormNumber(quantity, 0).val, 0))]
            /\ result' = Flash("add_product", "Product added.")
    /\ UNCHANGED <<store_id, carts, threaded, procs>>

update_product(product_id, name, price, quantity) ==
    LET sid == get_store_or_redirect
        refused == inventory_form(name, price, quantity)
    IN
    /\ IF sid = None THEN result' = NoStore("update_product") /\ UNCHANGED stores
       ELSE IF refused # "" THEN result' = Flash("update_product", refused) /\ UNCHANGED stores
       ELSE /\ stores' = [stores EXCEPT ![sid] =
                   Store_update_product(@, product_id, strip(name),
                                        max(FormNumber(price, 0).val, 0),
                                        max(FormNumber(quantity, 0).val, 0))]
            /\ result' = Flash("update_product", "Product updated.")
    /\ UNCHANGED <<store_id, carts, threaded, procs>>

delete_product(product_id) ==
    LET sid == get_store_or_redirect IN
    /\ IF sid = None THEN result' = NoStore("delete_product") /\ UNCHANGED stores
       ELSE /\ stores' = [stores EXCEPT ![sid] = Store_delete_product(@, product_id)]
            /\ result' = Flash("delete_product", "Product deleted.")
    /\ UNCHANGED <<store_id, carts, threaded, procs>>

\* The ledger with the status of the first order of that id set.
set_status(orders, order_id, new_status) ==
    LET at == {i \in 1..Len(orders) : orders[i].id = order_id}
        first == CHOOSE i \in at : \A j \in at : i <= j
    IN [orders EXCEPT ![first].status = new_status]

\* Mutant of update_order_status: an order only moves forward, from pending
\* to accepted to ready to completed.
Rank(st) == CASE st = "pending" -> 1 [] st = "accepted" -> 2 [] st = "ready" -> 3
              [] OTHER -> 4

update_order_status_forward(order_id, status) ==
    LET sid == get_store_or_redirect
        new_status == IF status = "<missing>" THEN "pending" ELSE status
        found == get_order(stores[sid], order_id)
    IN
    /\ IF sid = None THEN result' = NoStore("update_order_status") /\ UNCHANGED stores
       ELSE IF found = <<>>
       THEN result' = Result("update_order_status", "Order not found.",
                             <<order_id, new_status>>) /\ UNCHANGED stores
       ELSE IF new_status \notin Allowed \/ Rank(new_status) < Rank(found[1].status)
       THEN result' = Result("update_order_status", "Invalid status.",
                             <<order_id, new_status>>) /\ UNCHANGED stores
       ELSE /\ stores' = [stores EXCEPT ![sid].orders = set_status(@, order_id, new_status)]
            /\ result' = Result("update_order_status", "Order updated.",
                                <<order_id, new_status, found[1].status>>)
    /\ UNCHANGED <<store_id, carts, threaded, procs>>

\* status is the form field, "pending" when it is missing ("<missing>"). The
\* answer records the order id and the status asked for and, for an order
\* that was found, the status it had.
update_order_status(order_id, status) ==
    LET sid == get_store_or_redirect
        new_status == IF status = "<missing>" THEN "pending" ELSE status
        found == get_order(stores[sid], order_id)
    IN
    /\ IF sid = None THEN result' = NoStore("update_order_status") /\ UNCHANGED stores
       ELSE IF found = <<>>
       THEN result' = Result("update_order_status", "Order not found.",
                             <<order_id, new_status>>) /\ UNCHANGED stores
       ELSE IF new_status \notin Allowed
       THEN result' = Result("update_order_status", "Invalid status.",
                             <<order_id, new_status>>) /\ UNCHANGED stores
       ELSE /\ stores' = [stores EXCEPT ![sid].orders = set_status(@, order_id, new_status)]
            /\ result' = Result("update_order_status", "Order updated.",
                                <<order_id, new_status, found[1].status>>)
    /\ UNCHANGED <<store_id, carts, threaded, procs>>

\* seed(): the three stores, each a new Store with three add_product calls.
\* s1 = Store(id=1, name="Sunnyvale Fresh Mart")
s1_new ==
    Store(1, <<"S", "u", "n", "n", "y", "v", "a", "l", "e", " ",
               "F", "r", "e", "s", "h", " ", "M", "a", "r", "t">>)

\* s1.add_product("Bananas", 0.69, 100)
s1_add1 ==
    Store_add_product(s1_new,
        <<"B", "a", "n", "a", "n", "a", "s">>, 690, 100)

\* s1.add_product("Milk (1 gal)", 4.49, 30)
s1_add2 ==
    Store_add_product(s1_add1,
        <<"M", "i", "l", "k", " ", "(", "1", " ", "g", "a", "l", ")">>, 4490, 30)

\* s1.add_product("Eggs (dozen)", 3.99, 40)
s1 ==
    Store_add_product(s1_add2,
        <<"E", "g", "g", "s", " ", "(", "d", "o", "z", "e", "n", ")">>, 3990, 40)

\* s2 = Store(id=2, name="Neighborhood Grocers")
s2_new ==
    Store(2, <<"N", "e", "i", "g", "h", "b", "o", "r", "h", "o", "o", "d", " ",
               "G", "r", "o", "c", "e", "r", "s">>)

\* s2.add_product("Apples (lb)", 1.29, 80)
s2_add1 ==
    Store_add_product(s2_new,
        <<"A", "p", "p", "l", "e", "s", " ", "(", "l", "b", ")">>, 1290, 80)

\* s2.add_product("Bread", 3.49, 50)
s2_add2 ==
    Store_add_product(s2_add1,
        <<"B", "r", "e", "a", "d">>, 3490, 50)

\* s2.add_product("Rice (5 lb)", 7.99, 20)
s2 ==
    Store_add_product(s2_add2,
        <<"R", "i", "c", "e", " ", "(", "5", " ", "l", "b", ")">>, 7990, 20)

\* s3 = Store(id=3, name="Organic Corner")
s3_new ==
    Store(3, <<"O", "r", "g", "a", "n", "i", "c", " ",
               "C", "o", "r", "n", "e", "r">>)

\* s3.add_product("Avocados", 1.99, 60)
s3_add1 ==
    Store_add_product(s3_new,
        <<"A", "v", "o", "c", "a", "d", "o", "s">>, 1990, 60)

\* s3.add_product("Greek Yogurt", 1.49, 45)
s3_add2 ==
    Store_add_product(s3_add1,
        <<"G", "r", "e", "e", "k", " ", "Y", "o", "g", "u", "r", "t">>, 1490, 45)

\* s3.add_product("Spinach", 2.99, 35)
s3 ==
    Store_add_product(s3_add2,
        <<"S", "p", "i", "n", "a", "c", "h">>, 2990, 35)

\* stores = {1: s1, 2: s2, 3: s3}
seed == [sid \in {1, 2, 3} |-> CASE sid = 1 -> s1 [] sid = 2 -> s2 [] OTHER -> s3]

\* The store after its owner's requests on the seeded catalog, from the last
\* product id down to 1: delete_product(pid) for a pid above n, and
\* update_product(pid) with the form name "b", price "0.69" and quantity
\* `stock` for the others, which stores max(quantity, 0). It keeps n
\* products of a small stock.
RECURSIVE Restocked(_, _, _, _)
Restocked(store, pid, n, stock) ==
    IF pid = 0 THEN store
    ELSE Restocked(IF pid > n THEN Store_delete_product(store, pid)
                   ELSE Store_update_product(store, pid, strip(<<"b">>),
                                             max(690, 0), max(stock, 0)),
                   pid - 1, n, stock)

\* seed() followed by the owners' requests that restock the stores `ids`;
\* the other stores are as seed() left them.
SeededStores(ids, n, stock) ==
    [sid \in DOMAIN seed |->
        IF sid \in ids
        THEN Restocked(seed[sid], SetMax(DOMAIN seed[sid].products), n, stock)
        ELSE seed[sid]]

\* The state a new session finds after seed() and the owners' restocking of
\* the stores `ids`: no store selected, no cart stored.
InitSeeded(ids, n, stock) ==
    /\ stores = SeededStores(ids, n, stock)
    /\ store_id = None
    /\ carts = [k \in {cart_key(sid) : sid \in DOMAIN seed} |-> <<>>]
    /\ result = Result("init", "", <<>>)
    /\ threaded = FALSE
    /\ procs = Idle

\* The selected store's ledger holds fewer than n orders.
LedgerBelow(n) ==
    get_store_or_redirect # None => Len(stores[get_store_or_redirect].orders) < n

\* add_product would assign an id of at most n in the selected store.
NextIdUpTo(n) ==
    get_store_or_redirect # None => next_product_id(stores[get_store_or_redirect]) <= n

\* The name fields of the inventory forms: empty, whitespace only, and a name
\* within whitespace.
Names == {<<>>, <<"\t", " ">>, <<" ", "b", "\n">>}

------------------------------------------------------------------------------
(* SpecCart: the customer and inventory handlers on store 1, restocked to  *)
(* two products, one request at a time.                                   *)

InitCart == InitSeeded({1}, 2, MaxStock)

NextCart ==
    \/ \E sid \in {1, 4} : select_store(sid)
    \/ \E pid \in 1..3, q \in {Missing, Text, Num(0), Num(2)} : add_to_cart(pid, q)
    \/ clear_cart
    \/ \E m \in {"pickup", "drone"} : LedgerBelow(MaxPlaced) /\ checkout(m)
    \/ \E name \in Names, price \in {Text, Num(690)}, q \in {Num(-1), Num(1)} :
          NextIdUpTo(2) /\ add_product(name, price, q)
    \/ \E pid \in 1..3, name \in Names, price \in {Text, Num(690)},
          q \in {Num(-1), Num(1)} :
          update_product(pid, name, price, q)
    \/ \E pid \in 1..3 : delete_product(pid)

SpecCart == InitCart /\ [][NextCart]_vars

------------------------------------------------------------------------------
(* SpecApp: the same handlers on stores 1 and 2, restocked to one product  *)
(* each, with store 3 as seed() left it.                                   *)

InitApp == InitSeeded(StoreIds, 1, 1)

NextApp ==
    \/ \E sid \in StoreIds \cup {4} : select_store(sid)
    \/ \E pid \in 1..2, q \in {Missing, Text, Num(0)} : add_to_cart(pid, q)
    \/ clear_cart
    \/ \E m \in Methods \cup {"drone"} : LedgerBelow(MaxOrders) /\ checkout(m)
    \/ \E name \in Names, price \in {Text, Num(690)}, q \in {Num(-1), Num(1)} :
          NextIdUpTo(1) /\ add_product(name, price, q)
    \/ \E pid \in 1..2, name \in Names, price \in {Text, Num(690)},
          q \in {Num(-1), Num(1)} :
          update_product(pid, name, price, q)
    \/ \E pid \in 1..2 : delete_product(pid)

SpecApp == InitApp /\ [][NextApp]_vars

------------------------------------------------------------------------------
(* Claims about the cart and checkout handlers *)

\* C9: under one request at a time, from the seeded store and an empty
\* cart: every stored cart entry has a quantity of at least 1 and no two
\* entries name one product, so the lines checkout passes to create_order are
\* positive and name distinct products; and every product's quantity is >= 0.
C9_CartsAndStockSound ==
    /\ \A k \in DOMAIN carts :
          /\ \A i \in 1..Len(carts[k]) : carts[k][i][2] >= 1
          /\ \A i, j \in 1..Len(carts[k]) :
                int(carts[k][i][1]) = int(carts[k][j][1]) => i = j
    /\ \A sid \in DOMAIN stores :
          LET items == cart_items(get_cart(sid)) IN
          /\ Len(items) = Len(carts[cart_key(sid)])
          /\ \A i \in 1..Len(items) : items[i].quantity >= 1
          /\ \A i, j \in 1..Len(items) :
                items[i].product_id = items[j].product_id => i = j
          /\ \A pid \in DOMAIN stores[sid].products :
                stores[sid].products[pid].quantity >= 0

\* After an order was placed, the cart holds two products again, one of them
\* twice, and the owner has brought a product's stock to 0.
C9_Witness ==
    /\ Len(stores[1].orders) = 1
    /\ Len(carts[cart_key(1)]) = 2
    /\ \E i \in 1..2 : carts[cart_key(1)][i][2] = 2
    /\ \E pid \in DOMAIN stores[1].products : stores[1].products[pid].quantity = 0

\* The cart of store sid can be ordered: it is not empty, and each entry
\* names a product of the catalog with at least that much stock.
Orderable(sid) ==
    LET cart == get_cart(sid) IN
    /\ cart # <<>>
    /\ \A i \in 1..Len(cart) :
          /\ cart[i][1] \in DOMAIN stores[sid].products
          /\ cart[i][2] <= stores[sid].products[cart[i][1]].quantity

\* C10: a checkout for a selected store either places exactly one order in
\* that store's ledger and empties that store's cart, or (the cart is empty,
\* names a deleted product or asks for more than the stock) changes no
\* catalog, no ledger and no cart; either way the other stores' catalogs,
\* ledgers and carts are as before.
C10_CheckoutAllOrNothing ==
    [][result'.op = "checkout" /\ store_id \in DOMAIN stores =>
        LET sid == store_id IN
        /\ \A o \in DOMAIN stores \ {sid} :
              stores'[o] = stores[o] /\ carts'[cart_key(o)] = carts[cart_key(o)]
        /\ IF Orderable(sid)
           THEN /\ result'.msg = "Order placed!"
                /\ Len(stores'[sid].orders) = Len(stores[sid].orders) + 1
                /\ SubSeq(stores'[sid].orders, 1, Len(stores[sid].orders))
                     = stores[sid].orders
                /\ Last(stores'[sid].orders).items = cart_items(get_cart(sid))
                /\ carts'[cart_key(sid)] = <<>>
           ELSE /\ result'.msg \in {"Your cart is empty.", "Product not found.",
                                      "Not enough stock."}
                /\ stores' = stores
                /\ carts' = carts]_vars

\* A checkout is refused for a stock the owner lowered after the product
\* went into the cart, in a store that has placed an order before, while the
\* other store's cart holds a product.
C10_Witness ==
    /\ result = Flash("checkout", "Not enough stock.")
    /\ store_id = 1
    /\ Len(stores[1].orders) = 1
    /\ carts[cart_key(1)] # <<>>
    /\ carts[cart_key(2)] # <<>>

------------------------------------------------------------------------------
(* SpecCatalog: calls of the Store methods on one store *)

CatalogIds == 1..3

NextCatalog ==
    \/ \E name \in {<<"b">>, <<"k">>}, price \in Prices, q \in 0..1 :
          /\ next_product_id(stores[1]) \in CatalogIds
          /\ CallAddProduct(1, name, price, q)
    \/ \E pid \in 1..4, name \in {<<"b">>, <<"k">>}, price \in Prices, q \in 0..1 :
          CallUpdateProduct(1, pid, name, price, q)
    \/ \E pid \in 1..4 : CallDeleteProduct(1, pid)
    \/ CallCreateOrder(1, <<OrderItem(1, 1)>>, "pickup")

SpecCatalog == InitOrder /\ [][NextCatalog]_vars

\* C7: update_product and delete_product with an id that is not in the
\* catalog leave the catalog and the ledger as they are and raise nothing;
\* delete_product with an id of the catalog removes that product and changes
\* no other product and no order.
C7_AbsentIdIsNoOp ==
    [][/\ result'.op = "update_product" /\ result'.arg[1] \notin DOMAIN stores[1].products
          => stores' = stores /\ result'.msg = ""
       /\ result'.op = "delete_product" =>
            LET pid == result'.arg[1] IN
            /\ result'.msg = ""
            /\ stores'[1].orders = stores[1].orders
            /\ DOMAIN stores'[1].products = DOMAIN stores[1].products \ {pid}
            /\ \A other \in DOMAIN stores'[1].products :
                  stores'[1].products[other] = stores[1].products[other]
            /\ pid \notin DOMAIN stores[1].products => stores' = stores]_vars

\* update_product was called with an id that a delete had removed, on a
\* store with a product and an order.
C7_Witness ==
    /\ result.op = "update_product"
    /\ result.arg[1] \notin DOMAIN stores[1].products
    /\ result.arg[1] < next_product_id(stores[1])
    /\ stores[1].orders # <<>>

------------------------------------------------------------------------------
(* SpecStatus: orders placed through checkout, their status and the         *)
(* inventory handlers, on store 1 restocked to one product.               *)

InitStatus == InitSeeded({1}, 1, 1)

NextStatus ==
    \/ select_store(1)
    \/ add_to_cart(1, Missing)
    \/ \E m \in Methods : LedgerBelow(MaxOrders) /\ checkout(m)
    \/ \E oid \in 1..(MaxOrders + 1), st \in Allowed \cup {"shipped", "<missing>"} :
          update_order_status(oid, st)
    \/ NextIdUpTo(1) /\ add_product(<<"b">>, Num(690), Num(1))
    \/ update_product(1, <<"b">>, Num(690), Num(1))
    \/ delete_product(1)

SpecStatus == InitStatus /\ [][NextStatus]_vars

OrderIds(sid) == [i \in 1..Len(stores[sid].orders) |-> stores[sid].orders[i].id]

\* C3: in every store the order ids increase strictly in append order, the
\* first is 1 and each later one is the largest before it plus 1; and no
\* step removes an order or changes the id of one.
C3_OrderIdsIncrease ==
    /\ [](\A sid \in DOMAIN stores :
            LET ids == OrderIds(sid) IN
            /\ \A i, j \in 1..Len(ids) : i < j => ids[i] < ids[j]
            /\ Len(ids) >= 1 => ids[1] = 1
            /\ \A i \in 2..Len(ids) :
                  ids[i] = SetMax({ids[j] : j \in 1..(i - 1)}) + 1)
    /\ [][\A sid \in DOMAIN stores :
            /\ Len(stores'[sid].orders) >= Len(stores[sid].orders)
            /\ \A i \in 1..Len(stores[sid].orders) :
                  stores'[sid].orders[i].id = stores[sid].orders[i].id]_vars

\* Two orders are in the ledger, the first completed, and the product they
\* ordered has been deleted.
C3_Witness ==
    /\ Len(stores[1].orders) = 2
    /\ stores[1].orders[1].status = "completed"
    /\ DOMAIN stores[1].products = {}

\* C8: every order's status is one of the four; a request for an order of
\* the ledger with one of the four sets that order's status to it, whatever
\* the status was, and changes nothing else; a request with another status
\* or an unknown order id changes nothing.
C8_AnyStatusToAny ==
    /\ [](\A sid \in DOMAIN stores : \A i \in 1..Len(stores[sid].orders) :
            stores[sid].orders[i].status \in Allowed)
    /\ [][result'.op = "update_order_status" /\ store_id \in DOMAIN stores =>
            LET oid == result'.arg[1]
                new == result'.arg[2]
                old == stores[store_id].orders
            IN IF oid \in {old[i].id : i \in 1..Len(old)} /\ new \in Allowed
               THEN /\ result'.msg = "Order updated."
                    /\ stores' = [stores EXCEPT ![store_id].orders =
                          [i \in 1..Len(old) |->
                              IF old[i].id = oid THEN [old[i] EXCEPT !.status = new]
                              ELSE old[i]]]
               ELSE /\ result'.msg \in {"Order not found.", "Invalid status."}
                    /\ stores' = stores]_vars

\* A completed order was set back to pending.
C8_Witness ==
    /\ result.op = "update_order_status"
    /\ result.msg = "Order updated."
    /\ result.arg = <<1, "pending", "completed">>
    /\ stores[1].orders[1].status = "pending"

------------------------------------------------------------------------------
(* SpecConc: two checkout requests of two customers on one store, each a    *)
(* thread of the server when it is threaded, one after the other when not. *)

Procs == {1, 2}

IdleProc == [pc |-> "idle", store |-> None, items |-> <<>>, method |-> "", i |-> 0,
             total |-> 0, read |-> 0, order |-> <<>>]

InitConc ==
    /\ stores = SeededStores({1}, 1, MaxStock)
    /\ store_id = 1
    /\ carts = [k \in {cart_key(sid) : sid \in DOMAIN seed} |-> <<>>]
    /\ result = Result("init", "", <<>>)
    /\ threaded \in BOOLEAN
    /\ procs = [p \in Procs |-> IdleProc]

\* The orders of store 1's ledger and the placements in flight are fewer
\* than n.
InFlightBelow(n) ==
    Len(stores[1].orders) + Cardinality({q \in Procs : procs[q].pc # "idle"}) < n

\* checkout up to the call of create_order, on the cart of that customer's
\* session: no store selected redirects, an empty cart is turned down, and
\* otherwise the cart's entries of a quantity above 0 become the lines of the
\* order; with no line both loops of create_order are skipped. A server that
\* is not threaded takes a request when no other is in flight.
Begin(p, cart, delivery_method) ==
    LET sid == get_store_or_redirect
        method == IF delivery_method \notin Methods THEN "pickup" ELSE delivery_method
        items == cart_items(cart)
    IN
    /\ procs[p].pc = "idle"
    /\ threaded \/ \A q \in Procs : procs[q].pc = "idle"
    /\ IF sid = None
       THEN result' = NoStore("checkout") /\ UNCHANGED procs
       ELSE IF cart = <<>>
       THEN result' = Flash("checkout", "Your cart is empty.") /\ UNCHANGED procs
       ELSE /\ procs' = [procs EXCEPT ![p] =
                  [IdleProc EXCEPT !.pc = IF items = <<>> THEN "order" ELSE "validate",
                                   !.store = sid, !.items = items,
                                   !.method = method, !.i = 1]]
            /\ UNCHANGED result
    /\ UNCHANGED <<stores, store_id, carts, threaded>>

\* One turn of the validation loop.
ValidateLine(p) ==
    LET me == procs[p]
        e == check_item(stores[me.store].products, me.items[me.i])
    IN
    /\ me.pc = "validate"
    /\ IF e # ""
       THEN /\ procs' = [procs EXCEPT ![p] = IdleProc]
            /\ result' = Flash("checkout", e)
       ELSE /\ procs' = [procs EXCEPT ![p] =
                  [me EXCEPT !.total = @ + stores[me.store].products[me.items[me.i].product_id].price
                                           * me.items[me.i].quantity,
                             !.i = IF me.i = Len(me.items) THEN 1 ELSE me.i + 1,
                             !.pc = IF me.i = Len(me.items) THEN "read" ELSE "validate"]]
            /\ UNCHANGED result
    /\ UNCHANGED <<stores, store_id, carts, threaded>>

\* One turn of the decrement loop, `quantity -= item.quantity`: the read ...
DecrementRead(p) ==
    LET me == procs[p] IN
    /\ me.pc = "read"
    /\ procs' = [procs EXCEPT ![p] =
          [me EXCEPT !.read = stores[me.store].products[me.items[me.i].product_id].quantity,
                     !.pc = "write"]]
    /\ UNCHANGED <<stores, store_id, carts, result, threaded>>

\* ... and the write.
DecrementWrite(p) ==
    LET me == procs[p] IN
    /\ me.pc = "write"
    /\ stores' = [stores EXCEPT ![me.store].products[me.items[me.i].product_id].quantity =
                      me.read - me.items[me.i].quantity]
    /\ procs' = [procs EXCEPT ![p] =
          [me EXCEPT !.i = IF me.i = Len(me.items) THEN 1 ELSE me.i + 1,
                     !.pc = IF me.i = Len(me.items) THEN "order" ELSE "read"]]
    /\ UNCHANGED <<store_id, carts, result, threaded>>

\* Order(id=self.next_order_id(), ..., total_price=round(total, 2), ...)
MakeOrder(p) ==
    LET me == procs[p] IN
    /\ me.pc = "order"
    /\ \E t \in round2(me.total) :
          procs' = [procs EXCEPT ![p] =
              [me EXCEPT !.order = <<Order(next_order_id(stores[me.store]), me.items, t,
                                           me.method, "pending")>>,
                         !.pc = "append"]]
    /\ UNCHANGED <<stores, store_id, carts, result, threaded>>

\* self.orders.append(order), and the rest of checkout.
AppendOrder(p) ==
    LET me == procs[p] IN
    /\ me.pc = "append"
    /\ stores' = [stores EXCEPT ![me.store].orders = Append(@, me.order[1])]
    /\ procs' = [procs EXCEPT ![p] = IdleProc]
    /\ result' = Flash("checkout", "Order placed!")
    /\ UNCHANGED <<store_id, carts, threaded>>

NextConc ==
    \/ \E p \in Procs, cart \in {<<>>} \cup {<<<<1, q>>>> : q \in 1..MaxStock},
          m \in {"pickup", "drone"} :
          InFlightBelow(MaxOrders) /\ Begin(p, cart, m)
    \/ \E p \in Procs : ValidateLine(p)
    \/ \E p \in Procs : DecrementRead(p)
    \/ \E p \in Procs : DecrementWrite(p)
    \/ \E p \in Procs : MakeOrder(p)
    \/ \E p \in Procs : AppendOrder(p)

SpecConc == InitConc /\ [][NextConc]_vars

\* The quantity of product pid that the orders of the ledger took.
RECURSIVE Sold(_, _)
Sold(orders, pid) ==
    IF orders = <<>> THEN 0
    ELSE Sold(Tail(orders), pid) + Ordered(Head(orders).items, pid)

\* C6: when the placements run one at a time, the accepted orders never
\* take more of a product than the stock there was, and no quantity is
\* negative (when they run as threads they can: C6_Witness).
C6_SerialNeverOversells ==
    ~threaded =>
        \A pid \in DOMAIN stores[1].products :
            /\ Sold(stores[1].orders, pid) <= MaxStock
            /\ stores[1].products[pid].quantity >= 0

\* Two threads: both orders are in the ledger, together they took more than
\* the stock there was, and the quantity is negative.
C6_Witness ==
    /\ threaded
    /\ Len(stores[1].orders) = 2
    /\ Sold(stores[1].orders, 1) > MaxStock
    /\ stores[1].products[1].quantity < 0

====
